---- MODULE Spec2Model ----
(***************************************************************************)
(* A model of the mmpt crate: a hash-committed prefix trie over fixed      *)
(* length byte addresses (src/src/node.rs, src/src/trie.rs,                *)
(* src/src/hash.rs).  Addresses are AddrLen bytes long (32 in the crate)   *)
(* and a byte ranges over 0..NumNibbles-1 (0..255 in the crate).           *)
(***************************************************************************)
EXTENDS Integers, Sequences, FiniteSets, TLC

\* ---------------------------------------------------------------- bounds
AddrLen == 3
NumNibbles == 2
NumPayloads == 2
MaxAdds == 3
StackLimit == 3
MaxYield == 4

Nibbles == 0 .. (NumNibbles - 1)
Payloads == 1 .. NumPayloads
Addresses == [1 .. AddrLen -> Nibbles]

\* ---------------------------------------------------------------- bytes and digests
\* A byte string is a sequence of blocks.  A raw byte b is the block
\* [pre |-> <<>>, byte |-> b]; the output of the hash function on the byte
\* string s is the one-block string <<[pre |-> s, byte |-> -1]>>, so that the
\* hash is a function of its input bytes only and distinct inputs give
\* distinct digests.
Byte(b) == [pre |-> <<>>, byte |-> b]

Bytes(s) == [i \in 1 .. Len(s) |-> Byte(s[i])]

\* Sha256Algorithm::hash
Hash(data) == << [pre |-> data, byte |-> -1] >>

\* [0u8; 32]
ZeroHash == [i \in 1 .. AddrLen |-> Byte(0)]

\* P: Into<Vec<u8>>
PayloadBytes(p) == << Byte(p) >>

\* ---------------------------------------------------------------- Layer
\* Layer is an index 0 .. AddrLen-1 plus an out-of-range value.
LayerSentinel == AddrLen

LayerFrom(n) == IF n < AddrLen THEN n ELSE LayerSentinel

LayerInto(l) == l

\* ---------------------------------------------------------------- nodes
NodeNone == [kind |-> "None"]

NodeData(leaf, h) == [kind |-> "Data", data |-> leaf, hash |-> h]

NodeFork(fork, h) == [kind |-> "Fork", fork |-> fork, hash |-> h]

\* Node::get_hash: Some(hash) is <<hash>>, None is <<>>
NodeGetHash(node) == IF node.kind = "None" THEN << >> ELSE << node.hash >>

\* s[1..] of a Vec, s non-empty
Rest(s) == [i \in 1 .. (Len(s) - 1) |-> s[i + 1]]

\* Leaf::new
LeafNew(address, payload) ==
    [nibble |-> address[1], address |-> address,
     remainder |-> Rest(address), payload |-> payload]

\* Leaf::hash / Leaf::get_hash
LeafHash(leaf) == Hash(Bytes(leaf.address) \o PayloadBytes(leaf.payload))

\* Branch::new
BranchNew(layer) ==
    [layer |-> layer, nibbles |-> [n \in Nibbles |-> NodeNone], hash |-> ZeroHash]

RECURSIVE ConcatHashes(_, _)
ConcatHashes(nibbles, n) ==
    IF n = NumNibbles THEN << >>
    ELSE LET h == NodeGetHash(nibbles[n])
         IN  (IF h = << >> THEN << >> ELSE h[1]) \o ConcatHashes(nibbles, n + 1)

\* Branch::hash_nibbles, were it to fold the new slot digests into the digest
\* the Branch already has instead of hashing the slots afresh
HashNibblesChained(branch) ==
    [branch EXCEPT !.hash = Hash(branch.hash \o ConcatHashes(branch.nibbles, 0))]

\* Branch::hash_nibbles
HashNibbles(branch) ==
    [branch EXCEPT !.hash = Hash(ConcatHashes(branch.nibbles, 0))]

\* Fork::get_hash
ForkGetHash(fork) == Hash(fork.next.hash)

\* The outcome of a call that may panic: the value, or a panic.
Ok(v) == [ok |-> TRUE, val |-> v]

Panic == [ok |-> FALSE, val |-> << >>]

RECURSIVE BranchInsert(_, _)
RECURSIVE ForkFrom(_, _, _)

\* Fork::insert
ForkInsert(fork, leaf) ==
    LET r == BranchInsert(fork.next, leaf)
    IN  IF r.ok THEN Ok([fork EXCEPT !.next = r.val]) ELSE Panic

\* Fork::from, were it to leave the nibble and remainder of the leaf that was
\* already stored as they are
ForkFromStale(i0, i1, layer) ==
    IF Len(i0.remainder) = 0 \/ Len(i1.remainder) = 0
    THEN Panic
    ELSE LET leaf_1 == [nibble |-> i0.remainder[1], address |-> i0.address,
                        remainder |-> Rest(i0.remainder), payload |-> i0.payload]
             leaf_2 == i1
             fork == [nibble |-> i0.nibble, next |-> BranchNew(LayerFrom(layer + 1))]
             r1 == ForkInsert(fork, leaf_1)
         IN  IF r1.ok THEN ForkInsert(r1.val, leaf_2) ELSE Panic

\* Fork::from, were it to insert only the new leaf into the new Branch
ForkFromDropStored(i0, i1, layer) ==
    IF Len(i0.remainder) = 0 \/ Len(i1.remainder) = 0
    THEN Panic
    ELSE LET leaf_1 == [nibble |-> i0.remainder[1], address |-> i0.address,
                        remainder |-> Rest(i0.remainder), payload |-> i0.payload]
             fork == [nibble |-> i0.nibble, next |-> BranchNew(LayerFrom(layer + 1))]
         IN  ForkInsert(fork, leaf_1)

\* impl From<(Leaf<P>, Leaf<P>, usize)> for Fork<P>
ForkFrom(i0, i1, layer) ==
    IF Len(i0.remainder) = 0 \/ Len(i1.remainder) = 0
    THEN Panic
    ELSE LET leaf_1 == [nibble |-> i0.remainder[1], address |-> i0.address,
                        remainder |-> Rest(i0.remainder), payload |-> i0.payload]
             leaf_2 == [nibble |-> i1.remainder[1], address |-> i1.address,
                        remainder |-> Rest(i1.remainder), payload |-> i1.payload]
             fork == [nibble |-> i0.nibble, next |-> BranchNew(LayerFrom(layer + 1))]
             r1 == ForkInsert(fork, leaf_1)
         IN  IF r1.ok THEN ForkInsert(r1.val, leaf_2) ELSE Panic

\* Branch::insert, were its Node::None arm to cache the digest of the Branch
\* in the new Data node instead of the digest of the leaf
BranchInsertBranchHash(branch, leaf) ==
    LET index == leaf.nibble
        node == branch.nibbles[index]
    IN  CASE node.kind = "Fork" ->
               LET r == ForkInsert(node.fork, leaf)
               IN  IF r.ok
                   THEN Ok(HashNibbles([branch EXCEPT
                            !.nibbles[index] = NodeFork(r.val, ForkGetHash(r.val))]))
                   ELSE Panic
          [] node.kind = "Data" ->
               LET r == ForkFrom(leaf, node.data, LayerInto(branch.layer))
               IN  IF r.ok
                   THEN Ok(HashNibbles([branch EXCEPT
                            !.nibbles[index] = NodeFork(r.val, ForkGetHash(r.val))]))
                   ELSE Panic
          [] OTHER ->
               Ok(HashNibbles([branch EXCEPT
                    !.nibbles[index] = NodeData(leaf, branch.hash)]))

\* Branch::insert, were its Node::Fork arm to keep the digest the slot cached
\* before the insertion below the Fork
BranchInsertStaleFork(branch, leaf) ==
    LET index == leaf.nibble
        node == branch.nibbles[index]
    IN  CASE node.kind = "Fork" ->
               LET r == ForkInsert(node.fork, leaf)
               IN  IF r.ok
                   THEN Ok(HashNibbles([branch EXCEPT
                            !.nibbles[index] = NodeFork(r.val, node.hash)]))
                   ELSE Panic
          [] node.kind = "Data" ->
               LET r == ForkFrom(leaf, node.data, LayerInto(branch.layer))
               IN  IF r.ok
                   THEN Ok(HashNibbles([branch EXCEPT
                            !.nibbles[index] = NodeFork(r.val, ForkGetHash(r.val))]))
                   ELSE Panic
          [] OTHER ->
               Ok(HashNibbles([branch EXCEPT
                    !.nibbles[index] = NodeData(leaf, LeafHash(leaf))]))

\* Branch::insert, were its Node::Fork arm to put the leaf under a new Fork
\* with a fresh nested Branch
BranchInsertFreshFork(branch, leaf) ==
    LET index == leaf.nibble
        node == branch.nibbles[index]
    IN  CASE node.kind = "Fork" ->
               LET r == ForkInsert([nibble |-> node.fork.nibble,
                                    next |-> BranchNew(node.fork.next.layer)], leaf)
               IN  IF r.ok
                   THEN Ok(HashNibbles([branch EXCEPT
                            !.nibbles[index] = NodeFork(r.val, ForkGetHash(r.val))]))
                   ELSE Panic
          [] node.kind = "Data" ->
               LET r == ForkFrom(leaf, node.data, LayerInto(branch.layer))
               IN  IF r.ok
                   THEN Ok(HashNibbles([branch EXCEPT
                            !.nibbles[index] = NodeFork(r.val, ForkGetHash(r.val))]))
                   ELSE Panic
          [] OTHER ->
               Ok(HashNibbles([branch EXCEPT
                    !.nibbles[index] = NodeData(leaf, LeafHash(leaf))]))

\* Branch::insert
BranchInsert(branch, leaf) ==
    LET index == leaf.nibble
        node == branch.nibbles[index]
    IN  CASE node.kind = "Fork" ->
               LET r == ForkInsert(node.fork, leaf)
               IN  IF r.ok
                   THEN Ok(HashNibbles([branch EXCEPT
                            !.nibbles[index] = NodeFork(r.val, ForkGetHash(r.val))]))
                   ELSE Panic
          [] node.kind = "Data" ->
               LET r == ForkFrom(leaf, node.data, LayerInto(branch.layer))
               IN  IF r.ok
                   THEN Ok(HashNibbles([branch EXCEPT
                            !.nibbles[index] = NodeFork(r.val, ForkGetHash(r.val))]))
                   ELSE Panic
          [] OTHER ->
               Ok(HashNibbles([branch EXCEPT
                    !.nibbles[index] = NodeData(leaf, LeafHash(leaf))]))

\* Branch::get
BranchGet(branch, nibble) == branch.nibbles[nibble]

\* Root::new
RootNew ==
    LET next == BranchNew(LayerFrom(0))
    IN  [next |-> next, hash |-> Hash(next.hash)]

\* Trie::get
TrieGet(r, nibble) == BranchGet(r.next, nibble)

\* ---------------------------------------------------------------- traverse
\* Trie::traverse: the loop from position index of nibbles, in branch,
\* with data the last Fork seen.  The result is (index, Some(nibble), node).
RECURSIVE TraverseFrom(_, _, _, _)

\* Trie::traverse, were its Node::Fork arm not to remember the Fork
TraverseFromForgetFork(branch, nibbles, index, data) ==
    IF index < Len(nibbles)
    THEN LET nibble == nibbles[index + 1]
             node == BranchGet(branch, nibble)
         IN  CASE node.kind = "Fork" ->
                    TraverseFrom(node.fork.next, nibbles, index + 1, data)
               [] node.kind = "None" ->
                    [index |-> index, nibble |-> nibble, node |-> data]
               [] OTHER ->
                    [index |-> index, nibble |-> nibble,
                     node |-> NodeData(node.data, node.hash)]
    ELSE IF Len(nibbles) > 0
         THEN [index |-> Len(nibbles), nibble |-> nibbles[Len(nibbles)], node |-> data]
         ELSE [index |-> Len(nibbles), nibble |-> 0, node |-> data]

\* Trie::traverse, were its Node::None arm to count the byte of the Empty
\* slot as consumed
TraverseFromOffByOne(branch, nibbles, index, data) ==
    IF index < Len(nibbles)
    THEN LET nibble == nibbles[index + 1]
             node == BranchGet(branch, nibble)
         IN  CASE node.kind = "Fork" ->
                    TraverseFrom(node.fork.next, nibbles, index + 1, node)
               [] node.kind = "None" ->
                    [index |-> index + 1, nibble |-> nibble, node |-> data]
               [] OTHER ->
                    [index |-> index, nibble |-> nibble,
                     node |-> NodeData(node.data, node.hash)]
    ELSE IF Len(nibbles) > 0
         THEN [index |-> Len(nibbles), nibble |-> nibbles[Len(nibbles)], node |-> data]
         ELSE [index |-> Len(nibbles), nibble |-> 0, node |-> data]

TraverseFrom(branch, nibbles, index, data) ==
    IF index < Len(nibbles)
    THEN LET nibble == nibbles[index + 1]
             node == BranchGet(branch, nibble)
         IN  CASE node.kind = "Fork" ->
                    TraverseFrom(node.fork.next, nibbles, index + 1, node)
               [] node.kind = "None" ->
                    [index |-> index, nibble |-> nibble, node |-> data]
               [] OTHER ->
                    [index |-> index, nibble |-> nibble,
                     node |-> NodeData(node.data, node.hash)]
    ELSE IF Len(nibbles) > 0
         THEN [index |-> Len(nibbles), nibble |-> nibbles[Len(nibbles)], node |-> data]
         ELSE [index |-> Len(nibbles), nibble |-> 0, node |-> data]

Traverse(r, nibbles) == TraverseFrom(r.next, nibbles, 0, NodeNone)

\* ---------------------------------------------------------------- iteration
\* impl IntoIterator for Branch<P>
BranchIntoIter(branch) == [branch |-> branch, layer |-> branch.layer, index |-> 0]

\* impl Iterator for BranchIntoIter<P>: Some(node) is <<node>>, None is <<>>.
\* index is a u8 whose largest value is NumNibbles - 1; it is not advanced.
BranchIntoIterNext(bi) ==
    IF bi.index + 1 > NumNibbles - 1
    THEN << >>
    ELSE << bi.branch.nibbles[bi.index] >>

\* impl IntoIterator for Trie<P>
TrieIntoIter(r) ==
    [curr_branch |-> BranchIntoIter(r.next),
     layer |-> LayerFrom(LayerInto(r.next.layer)),
     branches |-> << BranchIntoIter(r.next) >>]

\* The frames of the calls of TrieIntoIter::next that wait for a nested call:
\* "loop" is the call in the Node::None arm (its value is dropped and the
\* loop goes on), "tail" the call that ends the function (its value is
\* returned).  A value returned to the frames fs leaves the frames below the
\* topmost "loop" frame, or none.
RECURSIVE Unwind(_)
Unwind(fs) ==
    IF Len(fs) = 0 THEN fs
    ELSE IF fs[Len(fs)] = "tail" THEN Unwind(SubSeq(fs, 1, Len(fs) - 1))
    ELSE fs

\* ---------------------------------------------------------------- state
VARIABLES
    root,        \* the Trie's Root: [next, hash]
    inserted,    \* the leaves handed to the completed add calls, in order
    panicked,    \* an add call panicked
    failed,      \* the leaf handed to the add call that panicked, <<leaf>>, or <<>>
    query,       \* the argument of the last traverse, <<s>>, or <<>>
    result,      \* the value the last traverse returned, <<r>>, or <<>>
    iter,        \* the TrieIntoIter made of the trie, <<it>>, or <<>>
    iterPc,      \* "idle", "run" (inside next), "ended" (next returned None),
                 \* "overflow" (the stack is exhausted), "panic"
    iterFrames,  \* the waiting calls of next
    yielded      \* the nodes the calls of next returned, in order

vars == << root, inserted, panicked, failed, query, result, iter, iterPc, iterFrames, yielded >>

iterVars == << iter, iterPc, iterFrames, yielded >>

Init ==
    /\ root = RootNew
    /\ inserted = << >>
    /\ panicked = FALSE
    /\ failed = << >>
    /\ query = << >>
    /\ result = << >>
    /\ iter = << >>
    /\ iterPc = "idle"
    /\ iterFrames = << >>
    /\ yielded = << >>

\* Trie::add
Add(address, payload) ==
    /\ ~panicked
    /\ iter = << >>
    /\ Len(inserted) < MaxAdds
    /\ LET leaf == LeafNew(address, payload)
           r == BranchInsert(root.next, leaf)
       IN  IF r.ok
           THEN /\ root' = [root EXCEPT !.next = r.val]
                /\ inserted' = Append(inserted, leaf)
                /\ panicked' = FALSE
                /\ failed' = << >>
           ELSE /\ root' = root
                /\ inserted' = inserted
                /\ panicked' = TRUE
                /\ failed' = << leaf >>
    /\ query' = << >>
    /\ result' = << >>
    /\ UNCHANGED iterVars

Queries == UNION { [1 .. n -> Nibbles] : n \in 0 .. AddrLen }

\* a call of Trie::traverse
DoTraverse(nibbles) ==
    /\ ~panicked
    /\ iter = << >>
    /\ query' = << nibbles >>
    /\ result' = << Traverse(root, nibbles) >>
    /\ UNCHANGED << root, inserted, panicked, failed >>
    /\ UNCHANGED iterVars

\* Trie::into_iter: the trie is moved into the iterator
IntoIter ==
    /\ ~panicked
    /\ iter = << >>
    /\ iter' = << TrieIntoIter(root) >>
    /\ query' = << >>
    /\ result' = << >>
    /\ UNCHANGED << root, inserted, panicked, failed, iterPc, iterFrames, yielded >>

\* a call of TrieIntoIter::next by the owner of the iterator
IterCall ==
    /\ iter # << >>
    /\ iterPc = "idle"
    /\ Len(yielded) < MaxYield
    /\ iterPc' = "run"
    /\ UNCHANGED << root, inserted, panicked, failed, query, result, iter, iterFrames, yielded >>

\* next returns the value v (<<node>> or <<>>) to the call that waits for it
IterReturn(it, v) ==
    LET fs == Unwind(iterFrames)
    IN  /\ iter' = << it >>
        /\ IF Len(fs) = 0
           THEN /\ iterFrames' = << >>
                /\ iterPc' = IF v = << >> THEN "ended" ELSE "idle"
                /\ yielded' = yielded \o v
           ELSE /\ iterFrames' = SubSeq(fs, 1, Len(fs) - 1)
                /\ iterPc' = "run"
                /\ yielded' = yielded

\* next calls itself from the frame kind
IterRecurse(it, kind) ==
    /\ iter' = << it >>
    /\ yielded' = yielded
    /\ IF Len(iterFrames) < StackLimit
       THEN /\ iterFrames' = Append(iterFrames, kind)
            /\ iterPc' = "run"
       ELSE /\ iterFrames' = iterFrames
            /\ iterPc' = "overflow"

\* TrieIntoIter::next: one round of its loop, or the code after the loop
IterStep ==
    /\ iter # << >>
    /\ iterPc = "run"
    /\ LET it == iter[1]
           n == BranchIntoIterNext(it.curr_branch)
       IN  IF n # << >>
           THEN LET node == n[1]
                IN  CASE node.kind = "Data" -> IterReturn(it, << node >>)
                      [] node.kind = "Fork" ->
                           /\ iter' = << [it EXCEPT
                                 !.branches = Append(@, BranchIntoIter(node.fork.next)),
                                 !.curr_branch = BranchIntoIter(node.fork.next),
                                 !.layer = LayerFrom(LayerInto(it.layer) + 1)] >>
                           /\ UNCHANGED << iterPc, iterFrames, yielded >>
                      [] OTHER -> IterRecurse(it, "loop")
           ELSE IF it.layer = 0
                THEN IterReturn(it, << >>)
                ELSE LET layer == LayerFrom(it.layer - 1)
                     IN  IF layer + 1 > Len(it.branches)
                         THEN /\ iterPc' = "panic"
                              /\ UNCHANGED << iter, iterFrames, yielded >>
                         ELSE IterRecurse(
                                [it EXCEPT !.layer = layer,
                                           !.curr_branch = it.branches[layer + 1],
                                           !.branches = SubSeq(@, 1, Len(@) - 1)],
                                "tail")
    /\ UNCHANGED << root, inserted, panicked, failed, query, result >>

Next ==
    \/ \E a \in Addresses, p \in Payloads : Add(a, p)
    \/ \E s \in Queries : DoTraverse(s)
    \/ IntoIter
    \/ IterCall
    \/ IterStep

Spec == Init /\ [][Next]_vars

\* ---------------------------------------------------------------- properties
\* the leaves of the completed add calls have pairwise distinct addresses
DistinctAddresses ==
    \A i, j \in 1 .. Len(inserted) :
        i # j => inserted[i].address # inserted[j].address

InsertedAddresses == { inserted[i].address : i \in 1 .. Len(inserted) }

\* C1: after completed adds of leaves with pairwise distinct addresses,
\* traverse of the full address A of an inserted leaf (A, X) returns a Data
\* node whose leaf has address A and payload X.
C1_TraverseFindsInserted ==
    (DistinctAddresses /\ query # << >>) =>
        \A i \in 1 .. Len(inserted) :
            inserted[i].address = query[1] =>
                /\ result[1].node.kind = "Data"
                /\ result[1].node.data.address = inserted[i].address
                /\ result[1].node.data.payload = inserted[i].payload

\* C2: after every add the Root digest is the hash of the digest of the
\* Root's layer-0 Branch.
C2_RootDigestFresh ==
    Len(inserted) > 0 => root.hash = Hash(root.next.hash)

\* C3: insertion is total: no add call, of any leaf, in any reachable trie,
\* ends in a failure.
C3_InsertTotal == ~panicked

\* the yielded nodes are Data nodes of pairwise distinct inserted addresses
YieldedMatchInserted ==
    /\ \A i \in 1 .. Len(yielded) :
          /\ yielded[i].kind = "Data"
          /\ yielded[i].data.address \in InsertedAddresses
    /\ \A i, j \in 1 .. Len(yielded) :
          i # j => yielded[i].data.address # yielded[j].data.address

\* C4: after N adds of leaves with pairwise distinct addresses, iterating the
\* trie terminates and yields exactly N Data nodes, one per inserted leaf.
C4_IterationComplete ==
    (DistinctAddresses /\ iter # << >>) =>
        /\ iterPc \notin {"overflow", "panic"}
        /\ Len(yielded) <= Len(inserted)
        /\ YieldedMatchInserted
        /\ (iterPc = "ended" => Len(yielded) = Len(inserted))

\* the first position (1-based) at which the addresses a and b differ,
\* AddrLen + 1 when they are equal
RECURSIVE FirstDiff(_, _, _)
FirstDiff(a, b, i) ==
    IF i > AddrLen THEN i
    ELSE IF a[i] # b[i] THEN i
    ELSE FirstDiff(a, b, i + 1)

\* slots a[i], ..., a[k] of the Branches from branch downwards are Forks whose
\* nested Branches sit at layers i, ..., k; the value is <<the Branch below
\* the last Fork>>, or <<>> when the chain is not there
RECURSIVE ForkChain(_, _, _, _)
ForkChain(branch, a, i, k) ==
    IF i > k THEN << branch >>
    ELSE LET node == BranchGet(branch, a[i])
         IN  IF node.kind = "Fork" /\ node.fork.next.layer = i
                /\ node.hash = Hash(node.fork.next.hash)
             THEN ForkChain(node.fork.next, a, i + 1, k)
             ELSE << >>

\* the slot of branch at a[i] is a Data node equal to the leaf (a, p)
HoldsLeaf(branch, i, a, p) ==
    LET node == BranchGet(branch, a[i])
    IN  /\ node.kind = "Data"
        /\ node.data.address = a
        /\ node.data.payload = p
        /\ LeafHash(node.data) = LeafHash(LeafNew(a, p))

\* C5: two leaves whose addresses agree on bytes 0..k-1 and differ at byte k,
\* 1 <= k <= AddrLen-1, inserted in either order into an empty layer-0
\* Branch, give Forks at slots A1[0..k-1] of the Branches at layers 0..k-1
\* and Data nodes equal to the two leaves at slots A1[k], A2[k] of the
\* Branch at layer k.
C5_CollisionForks ==
    Len(inserted) = 2 =>
        LET l1 == inserted[1]
            l2 == inserted[2]
            d == FirstDiff(l1.address, l2.address, 1)
        IN  (2 <= d /\ d <= AddrLen) =>
                LET c == ForkChain(root.next, l1.address, 1, d - 1)
                IN  /\ root.next.layer = 0
                    /\ c # << >>
                    /\ c[1].layer = d - 1
                    /\ HoldsLeaf(c[1], d, l1.address, l1.payload)
                    /\ HoldsLeaf(c[1], d, l2.address, l2.payload)

\* two leaves that first differ at the last byte sit below AddrLen-1 Forks
C5_Witness ==
    /\ Len(inserted) = 2
    /\ FirstDiff(inserted[1].address, inserted[2].address, 1) = AddrLen
    /\ ForkChain(root.next, inserted[1].address, 1, AddrLen - 1) # << >>

\* C6: an add of the leaf (A, X) into a trie whose layer-0 slot A[0] is Empty
\* makes that slot a Data node holding a leaf with address A and payload X
\* and caching the leaf's digest, and get(A[0]) returns that node.
C6_EmptySlotInsert ==
    [][ (Len(inserted') = Len(inserted) + 1) =>
          LET leaf == inserted'[Len(inserted')]
              slot == leaf.address[1]
          IN  BranchGet(root.next, slot).kind = "None" =>
                  /\ TrieGet(root', slot).kind = "Data"
                  /\ TrieGet(root', slot).data.address = leaf.address
                  /\ TrieGet(root', slot).data.payload = leaf.payload
                  /\ TrieGet(root', slot).hash =
                         Hash(Bytes(leaf.address) \o PayloadBytes(leaf.payload))
                  /\ TrieGet(root', slot) = NodeData(leaf, LeafHash(leaf))
      ]_vars

\* two leaves were added into two different Empty slots of the layer-0 Branch
C6_Witness ==
    /\ Len(inserted) = 2
    /\ inserted[1].address[1] # inserted[2].address[1]
    /\ TrieGet(root, inserted[1].address[1]).kind = "Data"
    /\ TrieGet(root, inserted[2].address[1]).kind = "Data"
    /\ TrieGet(root, inserted[2].address[1]).data.payload = inserted[2].payload

\* the last traverse was of a full address that no completed add inserted
AbsentQuery ==
    /\ query # << >>
    /\ Len(query[1]) = AddrLen
    /\ query[1] \notin InsertedAddresses

\* C7 as stated: traverse of a full address A that was never inserted does
\* not return a Data node; it returns Node::None, or the last Fork when a
\* Fork was passed.
C7_AbsentNotData ==
    AbsentQuery =>
        /\ result[1].node.kind # "Data"
        /\ (result[1].node.kind = "None" => result[1].index = 0)

\* the node at slot s[k] of the Branch below the Forks at slots s[i..k-1],
\* from branch downwards; Node::None when those slots are not all Forks
RECURSIVE NodeAt(_, _, _, _)
NodeAt(branch, s, i, k) ==
    IF i = k THEN BranchGet(branch, s[k])
    ELSE LET node == BranchGet(branch, s[i])
         IN  IF node.kind = "Fork" THEN NodeAt(node.fork.next, s, i + 1, k)
             ELSE NodeNone

\* C7 as amended: traverse of a full address A that was never inserted never
\* returns a Data node whose leaf has address A: it returns Node::None when
\* no Fork was passed, the last Fork passed when there is one and the walk
\* ended on an Empty slot or at the end of A, or the Data node of an inserted
\* leaf with another address that sits on the path of A.
C7_AbsentNeverMatched ==
    AbsentQuery =>
        LET r == result[1]
        IN  /\ r.node.kind = "Data" =>
                 /\ r.node.data.address # query[1]
                 /\ r.node.data.address \in InsertedAddresses
                 /\ r.index < AddrLen
                 /\ r.node = NodeAt(root.next, query[1], 1, r.index + 1)
            /\ r.node.kind = "None" => r.index = 0
            /\ r.node.kind = "Fork" =>
                 /\ r.index >= 1
                 /\ r.node = NodeAt(root.next, query[1], 1, r.index)

\* traverse of an absent address passed a Fork and stopped on an Empty slot
C7_Witness ==
    /\ AbsentQuery
    /\ result[1].node.kind = "Fork"
    /\ result[1].index >= 1
    /\ Len(inserted) >= 2

\* C8: on a trie into which nothing was inserted, the first call of next
\* terminates and returns None.
C8_EmptyIterEnds ==
    (Len(inserted) = 0 /\ iter # << >>) =>
        /\ iterPc \in {"idle", "run", "ended"}
        /\ yielded = << >>

\* C9: on a newly constructed trie, traverse(s) returns (0, Some(s[0]), None)
\* for a non-empty s and (0, Some(0), None) for the empty s.
C9_EmptyTrieTraverse ==
    (root = RootNew /\ query # << >>) =>
        result[1] = [index |-> 0,
                     nibble |-> IF Len(query[1]) > 0 THEN query[1][1] ELSE 0,
                     node |-> NodeNone]

\* traverse of a full-length sequence with a non-zero first byte was called
\* on the newly constructed trie
C9_Witness ==
    /\ root = RootNew
    /\ query # << >>
    /\ Len(query[1]) = AddrLen
    /\ query[1][1] # 0
    /\ result[1].node = NodeNone

\* the Branches of the trie below and including branch
RECURSIVE AllBranches(_)
AllBranches(branch) ==
    {branch} \cup
    UNION { AllBranches(branch.nibbles[n].fork.next) :
              n \in { m \in Nibbles : branch.nibbles[m].kind = "Fork" } }

Leaves == { LeafNew(a, p) : a \in Addresses, p \in Payloads }

\* C10: for a Branch and two leaves whose nibbles index two different Empty
\* slots of it, inserting the two leaves in either order gives the same
\* Branch digest and the same slot contents.
C10_InsertOrder ==
    (query = << >> /\ iter = << >>) =>
        \A b \in AllBranches(root.next) :
            \A l1, l2 \in Leaves :
                (/\ l1.nibble # l2.nibble
                 /\ BranchGet(b, l1.nibble).kind = "None"
                 /\ BranchGet(b, l2.nibble).kind = "None") =>
                    LET b12 == BranchInsert(BranchInsert(b, l1).val, l2)
                        b21 == BranchInsert(BranchInsert(b, l2).val, l1)
                    IN  /\ b12.ok /\ b21.ok
                        /\ b12.val.hash = b21.val.hash
                        /\ b12.val.nibbles = b21.val.nibbles
                        /\ b12.val.hash # BranchInsert(b, l1).val.hash

\* two leaves were added into two different Empty slots of the layer-0
\* Branch, and the Branch is the one the other order of insertion gives
C10_Witness ==
    /\ Len(inserted) = 2
    /\ inserted[1].nibble # inserted[2].nibble
    /\ root.next =
         BranchInsert(BranchInsert(BranchNew(0), inserted[2]).val, inserted[1]).val

\* the suffix s[i..] of the sequence s (1-based, empty when i > Len(s))
Suffix(s, i) == [j \in 1 .. (Len(s) - i + 1) |-> s[j + i - 1]]

\* C11: every leaf stored as a Data node of a Branch at layer L sits at slot
\* address[L], has nibble address[L] and has remainder address[L+1..].
C11_LeafAligned ==
    \A b \in AllBranches(root.next) :
        \A n \in Nibbles :
            BranchGet(b, n).kind = "Data" =>
                LET leaf == BranchGet(b, n).data
                IN  /\ b.layer < AddrLen
                    /\ leaf.address[b.layer + 1] = n
                    /\ leaf.nibble = leaf.address[b.layer + 1]
                    /\ leaf.remainder = Suffix(leaf.address, b.layer + 2)

\* C12: with pairwise distinct addresses every insertion completes, and
\* every Branch of every reachable trie is at a layer in 0 .. AddrLen-1.
C12_DistinctInsertCompletes ==
    /\ (panicked /\ DistinctAddresses) => failed[1].address \in InsertedAddresses
    /\ DistinctAddresses =>
           \A b \in AllBranches(root.next) : b.layer \in 0 .. (AddrLen - 1)

\* C13: every Branch stores the hash of the concatenation, in slot order, of
\* the digests of its non-Empty slots, from the newly constructed trie on.
C13_BranchDigest ==
    \A b \in AllBranches(root.next) :
        b.hash = Hash(ConcatHashes(b.nibbles, 0))

\* C14: the digest cached in every non-Empty slot is up to date at every
\* depth: a Fork slot caches the hash of the digest of the Fork's nested
\* Branch, a Data slot the hash of address || payload of its leaf.
C14_SlotDigestsFresh ==
    \A b \in AllBranches(root.next) :
        \A n \in Nibbles :
            LET node == BranchGet(b, n)
            IN  /\ node.kind = "Fork" => node.hash = Hash(node.fork.next.hash)
                /\ node.kind = "Data" =>
                       node.hash = Hash(Bytes(node.data.address)
                                        \o PayloadBytes(node.data.payload))

\* a third leaf was inserted below a Fork of the layer-0 Branch and made a
\* Fork in the nested Branch
C14_Witness ==
    /\ Len(inserted) = 3
    /\ \E n, m, k \in Nibbles :
          /\ m # k
          /\ BranchGet(root.next, n).kind = "Fork"
          /\ BranchGet(BranchGet(root.next, n).fork.next, m).kind = "Fork"
          /\ BranchGet(BranchGet(root.next, n).fork.next, k).kind = "Data"

\* Empty -> Data -> Fork
KindRank(node) ==
    CASE node.kind = "None" -> 0
      [] node.kind = "Data" -> 1
      [] OTHER -> 2

\* every slot of the Branch new, and of the Branches below its Forks, holds
\* a kind that is not behind the kind the same slot of old holds; the Forks
\* of old are Forks of new over the same nested Branch, grown the same way
RECURSIVE KindsForward(_, _)
KindsForward(old, new) ==
    /\ new.layer = old.layer
    /\ \A n \in Nibbles :
          LET o == BranchGet(old, n)
              w == BranchGet(new, n)
          IN  /\ KindRank(w) >= KindRank(o)
              /\ o.kind = "Fork" =>
                     /\ w.kind = "Fork"
                     /\ w.fork.nibble = o.fork.nibble
                     /\ KindsForward(o.fork.next, w.fork.next)

\* C15: across insertions the kind of every slot position of the trie only
\* moves forward along Empty -> Data -> Fork, and a Fork is never replaced
\* by a new Fork with a fresh nested Branch.
C15_KindsForward == [][KindsForward(root.next, root'.next)]_vars

\* a slot of the layer-0 Branch went from Data to Fork and a slot of the
\* nested Branch went from Data to Fork in turn
C15_Witness ==
    /\ Len(inserted) = 3
    /\ \E n, m \in Nibbles :
          /\ BranchGet(root.next, n).kind = "Fork"
          /\ BranchGet(BranchGet(root.next, n).fork.next, m).kind = "Fork"

\* the layer-0 Branch after inserting the leaves ls[i..] one after the other
\* into branch, or a panic
RECURSIVE InsertAll(_, _, _)
InsertAll(branch, ls, i) ==
    IF i > Len(ls) THEN Ok(branch)
    ELSE LET r == BranchInsert(branch, ls[i])
         IN  IF r.ok THEN InsertAll(r.val, ls, i + 1) ELSE Panic

\* the orders of n things
Orders(n) ==
    { f \in [1 .. n -> 1 .. n] : \A i, j \in 1 .. n : i # j => f[i] # f[j] }

\* C16: the trie of a set of leaves with pairwise distinct addresses is the
\* same for every insertion order: the same slots and Forks and the same
\* layer-0 Branch digest.
C16_OrderIndependent ==
    (DistinctAddresses /\ query = << >> /\ iter = << >>) =>
        \A f \in Orders(Len(inserted)) :
            LET r == InsertAll(BranchNew(LayerFrom(0)),
                               [i \in 1 .. Len(inserted) |-> inserted[f[i]]], 1)
            IN  /\ r.ok
                /\ r.val.hash = root.next.hash
                /\ r.val.nibbles = root.next.nibbles

\* the (address, payload) pairs of the Data nodes below and in branch
RECURSIVE StoredPairs(_)
StoredPairs(branch) ==
    UNION { LET node == BranchGet(branch, n)
            IN  CASE node.kind = "Data" ->
                       { << node.data.address, node.data.payload >> }
                  [] node.kind = "Fork" -> StoredPairs(node.fork.next)
                  [] OTHER -> {} : n \in Nibbles }

\* the number of Data nodes below and in branch, from slot n on
RECURSIVE CountData(_, _)
CountData(branch, n) ==
    IF n = NumNibbles THEN 0
    ELSE LET node == BranchGet(branch, n)
         IN  (CASE node.kind = "Data" -> 1
                [] node.kind = "Fork" -> CountData(node.fork.next, 0)
                [] OTHER -> 0) + CountData(branch, n + 1)

InsertedPairs ==
    { << inserted[i].address, inserted[i].payload >> : i \in 1 .. Len(inserted) }

\* C17: after completed insertions of leaves with pairwise distinct
\* addresses the Data nodes reachable from the layer-0 Branch hold exactly
\* the inserted (address, payload) pairs, each once, each with the digest of
\* its leaf.
C17_EntriesConserved ==
    DistinctAddresses =>
        /\ StoredPairs(root.next) = InsertedPairs
        /\ CountData(root.next, 0) = Len(inserted)
        /\ \A b \in AllBranches(root.next) :
              \A n \in Nibbles :
                  BranchGet(b, n).kind = "Data" =>
                      BranchGet(b, n).hash =
                          LeafHash(LeafNew(BranchGet(b, n).data.address,
                                           BranchGet(b, n).data.payload))

\* three leaves with distinct addresses were inserted, two of them were
\* pushed below two Forks
C17_Witness ==
    /\ Len(inserted) = 3
    /\ DistinctAddresses
    /\ CountData(root.next, 0) = 3
    /\ \E n, m \in Nibbles :
          /\ BranchGet(root.next, n).kind = "Fork"
          /\ BranchGet(BranchGet(root.next, n).fork.next, m).kind = "Fork"
          /\ CountData(BranchGet(BranchGet(root.next, n).fork.next, m).fork.next, 0) = 2

====
